---- MODULE Spec2Model ----
(***************************************************************************)
(* tinyland-video-thumbnails: the resolution cache (src/src/cache.ts), the *)
(* per-platform fetchers (src/src/fetchers.ts) and the platform detector   *)
(* and YouTube id extractor (src/src/platforms.ts).                        *)
(*                                                                         *)
(* A JavaScript string is a sequence of one-character strings, so that     *)
(* includes(), match() and template concatenation are computed on the      *)
(* characters as the code computes them.                                   *)
(***************************************************************************)
EXTENDS Integers, Sequences, FiniteSets, TLC

(***************************************************************************)
(* String literals of the sources and the URLs the operations are given.   *)
(***************************************************************************)
\* U_YT = "https://youtu.be/a1"
U_YT ==
  <<"h", "t", "t", "p", "s", ":", "/", "/", "y", "o", "u", "t", "u", ".", "b", "e", "/", "a",
    "1">>

\* U_YT_CHANNEL = "https://youtube.com/c/x"
U_YT_CHANNEL ==
  <<"h", "t", "t", "p", "s", ":", "/", "/", "y", "o", "u", "t", "u", "b", "e", ".", "c", "o",
    "m", "/", "c", "/", "x">>

\* U_VIMEO = "https://vimeo.com/1"
U_VIMEO ==
  <<"h", "t", "t", "p", "s", ":", "/", "/", "v", "i", "m", "e", "o", ".", "c", "o", "m", "/",
    "1">>

\* U_PT = "https://p.tv/w/u-1"
U_PT ==
  <<"h", "t", "t", "p", "s", ":", "/", "/", "p", ".", "t", "v", "/", "w", "/", "u", "-", "1">>

\* U_UNKNOWN = "https://e.io/v"
U_UNKNOWN ==
  <<"h", "t", "t", "p", "s", ":", "/", "/", "e", ".", "i", "o", "/", "v">>

\* U_INVALID = "not-a-url"
U_INVALID ==
  <<"n", "o", "t", "-", "a", "-", "u", "r", "l">>

\* S_youtube_com = "youtube.com"
S_youtube_com ==
  <<"y", "o", "u", "t", "u", "b", "e", ".", "c", "o", "m">>

\* S_youtu_be = "youtu.be"
S_youtu_be ==
  <<"y", "o", "u", "t", "u", ".", "b", "e">>

\* S_vimeo_com = "vimeo.com"
S_vimeo_com ==
  <<"v", "i", "m", "e", "o", ".", "c", "o", "m">>

\* S_videos_watch = "/videos/watch/"
S_videos_watch ==
  <<"/", "v", "i", "d", "e", "o", "s", "/", "w", "a", "t", "c", "h", "/">>

\* S_w = "/w/"
S_w ==
  <<"/", "w", "/">>

\* S_yt_watch = "youtube.com/watch?v="
S_yt_watch ==
  <<"y", "o", "u", "t", "u", "b", "e", ".", "c", "o", "m", "/", "w", "a", "t", "c", "h", "?",
    "v", "=">>

\* S_yt_short = "youtu.be/"
S_yt_short ==
  <<"y", "o", "u", "t", "u", ".", "b", "e", "/">>

\* S_yt_embed = "youtube.com/embed/"
S_yt_embed ==
  <<"y", "o", "u", "t", "u", "b", "e", ".", "c", "o", "m", "/", "e", "m", "b", "e", "d", "/">>

\* S_yt_v = "youtube.com/v/"
S_yt_v ==
  <<"y", "o", "u", "t", "u", "b", "e", ".", "c", "o", "m", "/", "v", "/">>

\* S_yt_shorts = "youtube.com/shorts/"
S_yt_shorts ==
  <<"y", "o", "u", "t", "u", "b", "e", ".", "c", "o", "m", "/", "s", "h", "o", "r", "t", "s",
    "/">>

\* S_img_prefix = "https://img.youtube.com/vi/"
S_img_prefix ==
  <<"h", "t", "t", "p", "s", ":", "/", "/", "i", "m", "g", ".", "y", "o", "u", "t", "u", "b",
    "e", ".", "c", "o", "m", "/", "v", "i", "/">>

\* S_maxres = "/maxresdefault.jpg"
S_maxres ==
  <<"/", "m", "a", "x", "r", "e", "s", "d", "e", "f", "a", "u", "l", "t", ".", "j", "p", "g">>

\* S_hq = "/hqdefault.jpg"
S_hq ==
  <<"/", "h", "q", "d", "e", "f", "a", "u", "l", "t", ".", "j", "p", "g">>

\* S_mq = "/mqdefault.jpg"
S_mq ==
  <<"/", "m", "q", "d", "e", "f", "a", "u", "l", "t", ".", "j", "p", "g">>

\* S_api = "/api/v1/videos/"
S_api ==
  <<"/", "a", "p", "i", "/", "v", "1", "/", "v", "i", "d", "e", "o", "s", "/">>

\* S_oembed = "https://vimeo.com/api/oembed.json?url="
S_oembed ==
  <<"h", "t", "t", "p", "s", ":", "/", "/", "v", "i", "m", "e", "o", ".", "c", "o", "m", "/",
    "a", "p", "i", "/", "o", "e", "m", "b", "e", "d", ".", "j", "s", "o", "n", "?", "u", "r",
    "l", "=">>

\* S_http = "http"
S_http ==
  <<"h", "t", "t", "p">>

\* S_https = "https"
S_https ==
  <<"h", "t", "t", "p", "s">>

\* S_null = "null"
S_null ==
  <<"n", "u", "l", "l">>

\* S_thumb_x = "https://i.vimeocdn.com/x"
S_thumb_x ==
  <<"h", "t", "t", "p", "s", ":", "/", "/", "i", ".", "v", "i", "m", "e", "o", "c", "d", "n",
    ".", "c", "o", "m", "/", "x">>

\* S_path_t = "/t.jpg"
S_path_t ==
  <<"/", "t", ".", "j", "p", "g">>

\* S_path_p = "/p.jpg"
S_path_p ==
  <<"/", "p", ".", "j", "p", "g">>

\* U_PT_REL = "/w/u-1"
U_PT_REL ==
  <<"/", "w", "/", "u", "-", "1">>

\* U_PT_LONG = "https://p.tv/w/0123456789abcdefghijklmnopqrstuvwxyz-"
U_PT_LONG ==
  <<"h", "t", "t", "p", "s", ":", "/", "/", "p", ".", "t", "v", "/", "w", "/", "0", "1", "2",
    "3", "4", "5", "6", "7", "8", "9", "a", "b", "c", "d", "e", "f", "g", "h", "i", "j", "k",
    "l", "m", "n", "o", "p", "q", "r", "s", "t", "u", "v", "w", "x", "y", "z", "-">>

\* U_PT_ABOUT = "https://p.tv/about"
U_PT_ABOUT ==
  <<"h", "t", "t", "p", "s", ":", "/", "/", "p", ".", "t", "v", "/", "a", "b", "o", "u", "t">>

\* U_YT_HOME = "https://youtube.com/"
U_YT_HOME ==
  <<"h", "t", "t", "p", "s", ":", "/", "/", "y", "o", "u", "t", "u", "b", "e", ".", "c", "o",
    "m", "/">>

\* U_YT_W = "https://YouTube.com/w/x"
U_YT_W ==
  <<"h", "t", "t", "p", "s", ":", "/", "/", "Y", "o", "u", "T", "u", "b", "e", ".", "c", "o",
    "m", "/", "w", "/", "x">>

\* U_VIMEO_WATCH = "https://vimeo.com/videos/watch/1"
U_VIMEO_WATCH ==
  <<"h", "t", "t", "p", "s", ":", "/", "/", "v", "i", "m", "e", "o", ".", "c", "o", "m", "/",
    "v", "i", "d", "e", "o", "s", "/", "w", "a", "t", "c", "h", "/", "1">>

\* U_YT_BARE = "youtube.com/watch?v=a1"
U_YT_BARE ==
  <<"y", "o", "u", "t", "u", "b", "e", ".", "c", "o", "m", "/", "w", "a", "t", "c", "h", "?",
    "v", "=", "a", "1">>

\* U_PT_WATCH = "http://p.tv:8080/videos/watch/u-1"
U_PT_WATCH ==
  <<"h", "t", "t", "p", ":", "/", "/", "p", ".", "t", "v", ":", "8", "0", "8", "0", "/", "v",
    "i", "d", "e", "o", "s", "/", "w", "a", "t", "c", "h", "/", "u", "-", "1">>

\* U_YT_T = "https://youtu.be/a1?t=1"
U_YT_T ==
  <<"h", "t", "t", "p", "s", ":", "/", "/", "y", "o", "u", "t", "u", ".", "b", "e", "/", "a",
    "1", "?", "t", "=", "1">>

\* U_YT_WATCH = "https://youtube.com/watch?v=a1&t=2"
U_YT_WATCH ==
  <<"h", "t", "t", "p", "s", ":", "/", "/", "y", "o", "u", "t", "u", "b", "e", ".", "c", "o",
    "m", "/", "w", "a", "t", "c", "h", "?", "v", "=", "a", "1", "&", "t", "=", "2">>

\* U_YT_EMBED = "https://youtube.com/embed/e1?x=1"
U_YT_EMBED ==
  <<"h", "t", "t", "p", "s", ":", "/", "/", "y", "o", "u", "t", "u", "b", "e", ".", "c", "o",
    "m", "/", "e", "m", "b", "e", "d", "/", "e", "1", "?", "x", "=", "1">>

\* U_YT_V = "https://youtube.com/v/v2"
U_YT_V ==
  <<"h", "t", "t", "p", "s", ":", "/", "/", "y", "o", "u", "t", "u", "b", "e", ".", "c", "o",
    "m", "/", "v", "/", "v", "2">>

\* U_YT_SHORTS = "https://youtube.com/shorts/s3/"
U_YT_SHORTS ==
  <<"h", "t", "t", "p", "s", ":", "/", "/", "y", "o", "u", "t", "u", "b", "e", ".", "c", "o",
    "m", "/", "s", "h", "o", "r", "t", "s", "/", "s", "3", "/">>

\* U_YT_SHORTS_T = "https://youtube.com/shorts/s3?u=youtu.be/a1"
U_YT_SHORTS_T ==
  <<"h", "t", "t", "p", "s", ":", "/", "/", "y", "o", "u", "t", "u", "b", "e", ".", "c", "o",
    "m", "/", "s", "h", "o", "r", "t", "s", "/", "s", "3", "?", "u", "=", "y", "o", "u", "t",
    "u", ".", "b", "e", "/", "a", "1">>

\* U_YT_SHORTS_V = "https://youtube.com/shorts/s3?u=youtube.com/v/v2"
U_YT_SHORTS_V ==
  <<"h", "t", "t", "p", "s", ":", "/", "/", "y", "o", "u", "t", "u", "b", "e", ".", "c", "o",
    "m", "/", "s", "h", "o", "r", "t", "s", "/", "s", "3", "?", "u", "=", "y", "o", "u", "t",
    "u", "b", "e", ".", "c", "o", "m", "/", "v", "/", "v", "2">>

\* U_YT_NO_ID = "https://youtube.com/watch?v=&t=1"
U_YT_NO_ID ==
  <<"h", "t", "t", "p", "s", ":", "/", "/", "y", "o", "u", "t", "u", "b", "e", ".", "c", "o",
    "m", "/", "w", "a", "t", "c", "h", "?", "v", "=", "&", "t", "=", "1">>

(***************************************************************************)
(* String primitives.                                                      *)
(***************************************************************************)
Min(S) ==
  CHOOSE x \in S : \A y \in S : x <= y

LowerLetters ==
  <<"a", "b", "c", "d", "e", "f", "g", "h", "i", "j", "k", "l", "m",
    "n", "o", "p", "q", "r", "s", "t", "u", "v", "w", "x", "y", "z">>

UpperLetters ==
  <<"A", "B", "C", "D", "E", "F", "G", "H", "I", "J", "K", "L", "M",
    "N", "O", "P", "Q", "R", "S", "T", "U", "V", "W", "X", "Y", "Z">>

Digits ==
  {"0", "1", "2", "3", "4", "5", "6", "7", "8", "9"}

Range(s) ==
  {s[i] : i \in 1..Len(s)}

Letters ==
  Range(LowerLetters) \cup Range(UpperLetters)

\* String.prototype.toLowerCase on one character.
LowerChar(c) ==
  IF c \in Range(UpperLetters)
    THEN LowerLetters[CHOOSE i \in 1..26 : UpperLetters[i] = c]
    ELSE c

toLowerCase(s) ==
  [i \in 1..Len(s) |-> LowerChar(s[i])]

\* p occurs in s starting at position i (1-based).
MatchesAt(s, p, i) ==
  /\ i >= 1
  /\ i + Len(p) - 1 <= Len(s)
  /\ \A k \in 1..Len(p) : s[i + k - 1] = p[k]

\* String.prototype.includes.
includes(s, p) ==
  \E i \in 1..(Len(s) + 1) : MatchesAt(s, p, i)

\* The longest run of characters of s from position i on, all satisfying
\* membership in class cs (a greedy character-class repetition).
RunEnd(s, i, cs) ==
  IF \A k \in i..Len(s) : s[k] \in cs
    THEN Len(s)
    ELSE Min({k \in i..Len(s) : s[k] \notin cs}) - 1

Slice(s, i, j) ==
  IF j < i THEN <<>> ELSE SubSeq(s, i, j)

\* Like RunEnd, for a negated character class [^...].
RunEndNot(s, i, stops) ==
  IF \A k \in i..Len(s) : s[k] \notin stops
    THEN Len(s)
    ELSE Min({k \in i..Len(s) : s[k] \in stops}) - 1

LastIndexOf(s, c) ==
  IF \E k \in 1..Len(s) : s[k] = c
    THEN CHOOSE k \in 1..Len(s) : s[k] = c /\ \A j \in (k + 1)..Len(s) : s[j] # c
    ELSE 0

(***************************************************************************)
(* new URL(url), as far as platforms.ts and fetchers.ts read it: whether   *)
(* the constructor throws, .hostname and .origin.  Absolute URLs only (the *)
(* constructor is given no base): a scheme, then for http and https any    *)
(* run of slashes and an authority [userinfo@]host[:port] with a non-empty *)
(* host free of forbidden characters; another scheme has an authority only *)
(* after "//" and the origin "null".                                       *)
(***************************************************************************)
SchemeChars ==
  Letters \cup Digits \cup {"+", "-", "."}

ForbiddenHostChars ==
  {" ", "#", "/", ":", "<", ">", "?", "@", "[", "\\", "]", "^", "|", "%"}

URLFailure ==
  [ok |-> FALSE, hostname |-> <<>>, origin |-> <<>>]

DefaultPort(scheme) ==
  IF scheme = S_http THEN <<"8", "0">> ELSE <<"4", "4", "3">>

\* The serialized origin: scheme://host[:port], the default port left out.
Origin(scheme, special, hostname, port) ==
  IF ~special THEN S_null
  ELSE scheme \o <<":", "/", "/">> \o hostname
       \o (IF Len(port) = 0 \/ port = DefaultPort(scheme) THEN <<>> ELSE <<":">> \o port)

MakeURL(scheme, special, host, port) ==
  IF \/ special /\ Len(host) = 0
     \/ \E k \in 1..Len(host) : host[k] \in ForbiddenHostChars
     \/ \E k \in 1..Len(port) : port[k] \notin Digits
    THEN URLFailure
    ELSE [ok |-> TRUE,
          hostname |-> IF special THEN toLowerCase(host) ELSE host,
          origin |-> Origin(scheme, special, IF special THEN toLowerCase(host) ELSE host,
                            port)]

\* host[:port], split at its last colon pc (0 when it has none).
SplitPort(scheme, special, hostport, pc) ==
  MakeURL(scheme, special,
          IF pc = 0 THEN hostport ELSE Slice(hostport, 1, pc - 1),
          IF pc = 0 THEN <<>> ELSE Slice(hostport, pc + 1, Len(hostport)))

\* [userinfo@]host[:port]
ParseAuthority(scheme, special, authority) ==
  SplitPort(scheme, special,
            Slice(authority, LastIndexOf(authority, "@") + 1, Len(authority)),
            LastIndexOf(Slice(authority, LastIndexOf(authority, "@") + 1, Len(authority)),
                        ":"))

AuthorityFrom(url, start, stops) ==
  Slice(url, start, RunEndNot(url, start, stops))

\* What follows "scheme:", the colon at position colon.
ParseAfterScheme(url, scheme, colon) ==
  IF scheme \in {S_http, S_https}
    THEN ParseAuthority(scheme, TRUE,
                        AuthorityFrom(url, RunEnd(url, colon + 1, {"/", "\\"}) + 1,
                                      {"/", "?", "#", "\\"}))
  ELSE IF MatchesAt(url, <<"/", "/">>, colon + 1)
    THEN ParseAuthority(scheme, FALSE, AuthorityFrom(url, colon + 3, {"/", "?", "#"}))
  ELSE ParseAuthority(scheme, FALSE, <<>>)

ParseScheme(url, colon) ==
  IF Len(url) = 0 \/ url[1] \notin Letters \/ colon > Len(url) \/ url[colon] # ":"
    THEN URLFailure
    ELSE ParseAfterScheme(url, toLowerCase(Slice(url, 1, colon - 1)), colon)

URLParse(url) ==
  ParseScheme(url, RunEnd(url, 1, SchemeChars) + 1)

(***************************************************************************)
(* platforms.ts                                                            *)
(***************************************************************************)
\* Platform | null: detection yields a platform tag or "none".
Platforms ==
  {"youtube", "peertube", "vimeo"}

NoPlatform ==
  "none"

\* A detection that takes every other parseable URL for a PeerTube one.
DetectHostLenient(url, hostname) ==
  IF includes(hostname, S_youtube_com) \/ includes(hostname, S_youtu_be)
    THEN "youtube"
  ELSE IF includes(hostname, S_vimeo_com)
    THEN "vimeo"
  ELSE "peertube"

\* A detection that looks at the path before it looks at the host.
DetectHostPathFirst(url, hostname) ==
  IF includes(url, S_videos_watch) \/ includes(url, S_w)
    THEN "peertube"
  ELSE IF includes(hostname, S_youtube_com) \/ includes(hostname, S_youtu_be)
    THEN "youtube"
  ELSE IF includes(hostname, S_vimeo_com)
    THEN "vimeo"
  ELSE NoPlatform

\* The checks of detectPlatform on the lowercased hostname and the raw url.
DetectHost(url, hostname) ==
  IF includes(hostname, S_youtube_com) \/ includes(hostname, S_youtu_be)
    THEN "youtube"
  ELSE IF includes(hostname, S_vimeo_com)
    THEN "vimeo"
  ELSE IF includes(url, S_videos_watch) \/ includes(url, S_w)
    THEN "peertube"
  ELSE NoPlatform

\* detectPlatform once new URL(url) has returned urlObj or thrown.
DetectParsed(url, urlObj) ==
  IF ~urlObj.ok THEN NoPlatform ELSE DetectHost(url, toLowerCase(urlObj.hostname))

detectPlatform(url) ==
  DetectParsed(url, URLParse(url))

\* String | null as a record: the capture of a match, or no match.
NoMatch ==
  [found |-> FALSE, value |-> <<>>]

\* A character class [cs] or, negated, [^cs].
InClass(c, cs, negated) ==
  IF negated THEN c \notin cs ELSE c \in cs

ClassRunEnd(s, i, cs, negated) ==
  IF negated THEN RunEndNot(s, i, cs) ELSE RunEnd(s, i, cs)

\* url.match(/(?:alt1|alt2|...)([class]+)/)?.[1]: at the leftmost position
\* where one of the alternatives (tried in order) is followed by at least
\* one character of the class, the greedy run of such characters.
MatchAltThenClass(url, alts, cs, negated) ==
  LET ok(i, a) == /\ MatchesAt(url, alts[a], i)
                  /\ i + Len(alts[a]) <= Len(url)
                  /\ InClass(url[i + Len(alts[a])], cs, negated)
      hits == {i \in 1..Len(url) : \E a \in 1..Len(alts) : ok(i, a)}
  IN  IF hits = {} THEN NoMatch
      ELSE LET i == Min(hits)
               a == Min({b \in 1..Len(alts) : ok(i, b)})
               from == i + Len(alts[a])
           IN  [found |-> TRUE,
                value |-> Slice(url, from, ClassRunEnd(url, from, cs, negated))]

IdStops ==
  {"&", "?", "/"}

\* The patterns with the shorts pattern tried first.
patternsShortsFirst ==
  << <<S_yt_shorts>>, <<S_yt_watch, S_yt_short, S_yt_embed>>, <<S_yt_v>> >>

patterns ==
  << <<S_yt_watch, S_yt_short, S_yt_embed>>, <<S_yt_v>>, <<S_yt_shorts>> >>

\* An extraction that takes the first path-like segment as the identifier.
extractYouTubeIdAnySegment(url) ==
  MatchAltThenClass(url, << <<"/">> >>, IdStops, TRUE)

extractYouTubeId(url) ==
  LET matched == {p \in 1..Len(patterns) :
                    MatchAltThenClass(url, patterns[p], IdStops, TRUE).found}
  IN  IF matched = {} THEN NoMatch
      ELSE MatchAltThenClass(url, patterns[Min(matched)], IdStops, TRUE)

(***************************************************************************)
(* Values of a parsed JSON body, with JavaScript's truthiness and          *)
(* nullishness (the || and ?? of fetchers.ts).                             *)
(***************************************************************************)
Undefined ==
  [t |-> "undefined"]

JsNull ==
  [t |-> "null"]

Num(n) ==
  [t |-> "number", n |-> n]

Str(s) ==
  [t |-> "string", s |-> s]

Truthy(v) ==
  CASE v.t = "number" -> v.n # 0
    [] v.t = "string" -> Len(v.s) > 0
    [] OTHER -> FALSE

Nullish(v) ==
  v.t \in {"undefined", "null"}

\* a || b
OrElse(a, b) ==
  IF Truthy(a) THEN a ELSE b

\* a ?? b
Coalesce(a, b) ==
  IF Nullish(a) THEN b ELSE a

(***************************************************************************)
(* fetchers.ts: the parts of the fetchers that compute without awaiting.   *)
(***************************************************************************)
\* ThumbnailResult | null
Null ==
  [isNull |-> TRUE]

ThumbnailResult(url, width, height, platform, cached) ==
  [url |-> url, width |-> width, height |-> height, platform |-> platform, cached |-> cached]

\* A candidate list that starts with the middle size.
thumbnailsSwapped(videoId) ==
  << [url |-> S_img_prefix \o videoId \o S_hq, width |-> 480, height |-> 360],
     [url |-> S_img_prefix \o videoId \o S_maxres, width |-> 1280, height |-> 720],
     [url |-> S_img_prefix \o videoId \o S_mq, width |-> 320, height |-> 180] >>

\* The candidate list of fetchYouTubeThumbnail, in probing order.
thumbnails(videoId) ==
  << [url |-> S_img_prefix \o videoId \o S_maxres, width |-> 1280, height |-> 720],
     [url |-> S_img_prefix \o videoId \o S_hq, width |-> 480, height |-> 360],
     [url |-> S_img_prefix \o videoId \o S_mq, width |-> 320, height |-> 180] >>

\* A YouTube descriptor stamped as if it came from the store.
YouTubeResultStamped(thumb) ==
  ThumbnailResult(thumb.url, thumb.width, thumb.height, "youtube", TRUE)

YouTubeResult(thumb) ==
  ThumbnailResult(thumb.url, thumb.width, thumb.height, "youtube", FALSE)

UuidChars ==
  Letters \cup Digits \cup {"-"}

uuidMatch(url) ==
  MatchAltThenClass(url, <<S_videos_watch, S_w>>, UuidChars, FALSE)

apiUrl(instance, uuid) ==
  instance \o S_api \o uuid

\* A PeerTube descriptor labelled as a Vimeo one.
PeerTubeResultAsVimeo(instance, data) ==
  LET thumbnailPath == Coalesce(data.thumbnailPath, data.previewPath)
  IN  IF ~Truthy(thumbnailPath) THEN Null
      ELSE ThumbnailResult(instance \o thumbnailPath.s, 560, 315, "vimeo", FALSE)

PeerTubeResult(instance, data) ==
  LET thumbnailPath == Coalesce(data.thumbnailPath, data.previewPath)
  IN  IF ~Truthy(thumbnailPath) THEN Null
      ELSE ThumbnailResult(instance \o thumbnailPath.s, 560, 315, "peertube", FALSE)

\* encodeURIComponent leaves these characters as they are and writes every
\* other one as %XX.
Unreserved ==
  Letters \cup Digits \cup {"-", "_", ".", "!", "~", "*", "'", "(", ")"}

PercentCodes ==
  << <<" ", "2", "0">>, <<"#", "2", "3">>, <<"$", "2", "4">>, <<"%", "2", "5">>,
     <<"&", "2", "6">>, <<"+", "2", "B">>, <<",", "2", "C">>, <<"/", "2", "F">>,
     <<":", "3", "A">>, <<";", "3", "B">>, <<"=", "3", "D">>, <<"?", "3", "F">>,
     <<"@", "4", "0">> >>

EncodeChar(c) ==
  IF c \in Unreserved THEN <<c>>
  ELSE LET k == CHOOSE j \in 1..Len(PercentCodes) : PercentCodes[j][1] = c
       IN  <<"%", PercentCodes[k][2], PercentCodes[k][3]>>

RECURSIVE encodeURIComponent(_)
encodeURIComponent(s) ==
  IF Len(s) = 0 THEN <<>> ELSE EncodeChar(Head(s)) \o encodeURIComponent(Tail(s))

oembedUrl(url) ==
  S_oembed \o encodeURIComponent(url)

\* A Vimeo descriptor that defaults both dimensions when either is missing.
VimeoResultJoint(data) ==
  IF ~Truthy(data.thumbnail_url) THEN Null
  ELSE IF Truthy(data.thumbnail_width) /\ Truthy(data.thumbnail_height)
    THEN ThumbnailResult(data.thumbnail_url.s, data.thumbnail_width.n,
                         data.thumbnail_height.n, "vimeo", FALSE)
  ELSE ThumbnailResult(data.thumbnail_url.s, 640, 360, "vimeo", FALSE)

VimeoResult(data) ==
  IF ~Truthy(data.thumbnail_url) THEN Null
  ELSE ThumbnailResult(data.thumbnail_url.s,
                       OrElse(data.thumbnail_width, Num(640)).n,
                       OrElse(data.thumbnail_height, Num(360)).n,
                       "vimeo", FALSE)

(***************************************************************************)
(* cache.ts: the store.  A JavaScript Map keeps its entries in insertion   *)
(* order: it is the sequence of its [key, result, timestamp] entries, with *)
(* no key twice.                                                           *)
(***************************************************************************)
CACHE_TTL ==
  1000 * 60 * 60 * 24

MapHas(m, k) ==
  \E i \in 1..Len(m) : m[i].key = k

MapIndex(m, k) ==
  CHOOSE i \in 1..Len(m) : m[i].key = k

\* A set that leaves a key it already holds as it is.
MapSetIfAbsent(m, k, result, timestamp) ==
  IF \E i \in 1..Len(m) : m[i].key = k
    THEN m
    ELSE Append(m, [key |-> k, result |-> result, timestamp |-> timestamp])

\* A set that keeps a single slot whatever the key.
MapSetOneSlot(m, k, result, timestamp) ==
  <<[key |-> k, result |-> result, timestamp |-> timestamp]>>

\* A set that first drops the entries that have expired by `timestamp`.
MapSetSweeping(m, k, result, timestamp) ==
  SelectSeq(m, LAMBDA e : e.key # k /\ timestamp - e.timestamp < CACHE_TTL)
    \o <<[key |-> k, result |-> result, timestamp |-> timestamp]>>

\* A set that stamps every entry with the start of the clock.
MapSetUnstamped(m, k, result, timestamp) ==
  SelectSeq(m, LAMBDA e : e.key # k) \o <<[key |-> k, result |-> result, timestamp |-> 0]>>

\* A set that only replaces the entry of a key the map still holds.
MapSetExistingOnly(m, k, result, timestamp) ==
  [i \in 1..Len(m) |->
     IF m[i].key = k THEN [key |-> k, result |-> result, timestamp |-> timestamp]
     ELSE m[i]]

\* Map.prototype.set: an existing key keeps its place, a new one goes last.
MapSet(m, k, result, timestamp) ==
  LET e == [key |-> k, result |-> result, timestamp |-> timestamp]
  IN  IF MapHas(m, k) THEN [m EXCEPT ![MapIndex(m, k)] = e] ELSE Append(m, e)

\* A delete that empties the map.
MapDeleteAll(m, k) ==
  <<>>

\* A delete that leaves the map as it is.
MapDeleteNothing(m, k) ==
  m

\* Map.prototype.delete
MapDelete(m, k) ==
  SelectSeq(m, LAMBDA e : e.key # k)

\* A clear that drops the oldest entry only.
MapClearOldest(m) ==
  IF m = <<>> THEN m ELSE Tail(m)

\* Map.prototype.clear
MapClear(m) ==
  <<>>

MapKeys(m) ==
  [i \in 1..Len(m) |-> m[i].key]

\* A freshness test that gives up an entry one millisecond early.
IsFreshEarly(age) ==
  age < CACHE_TTL - 1

\* A freshness test that never lets an entry expire.
IsFreshForever(age) ==
  age >= 0

\* A freshness test that still serves an entry aged exactly CACHE_TTL.
IsFreshAtBoundary(age) ==
  age <= CACHE_TTL

\* A freshness test that serves an entry for two days.
IsFreshTwoDays(age) ==
  age < 2 * CACHE_TTL

\* age < CACHE_TTL
IsFresh(age) ==
  age < CACHE_TTL

\* A hit that hands back the stored result as it is.
CachedCopyUnmarked(result) ==
  result

\* { ...cached.result, cached: true }
CachedCopy(result) ==
  [result EXCEPT !.cached = TRUE]

\* An expiry test that spares an entry aged exactly CACHE_TTL.
IsExpiredStrict(t, timestamp) ==
  t - timestamp > CACHE_TTL

\* now - entry.timestamp >= CACHE_TTL
IsExpired(t, timestamp) ==
  t - timestamp >= CACHE_TTL

\* A key list handed out as it is, without a copy.
ArrayLive(items) ==
  [live |-> TRUE, items |-> items]

\* Array.from(iterable): a new array holding the items; live says whether
\* the array is the store's own key list rather than a copy of it.
ArrayFrom(items) ==
  [live |-> FALSE, items |-> items]

(***************************************************************************)
(* Bounds of the model, and what the environment supplies.                 *)
(***************************************************************************)
\* calls of getVideoThumbnail
MaxCalls ==
  2

\* days the clock runs past the first one
MaxDays ==
  1

\* The readings of the clock: the millisecond before, at and after each
\* multiple of the TTL, so that entries reach the ages TTL - 1, TTL and more.
Instants ==
  {t \in {d * CACHE_TTL + k : d \in 0..MaxDays, k \in {-1, 0, 1}} : t >= 0}

U_EMPTY ==
  <<>>

\* URLs the operations are called with: a video of each platform, a YouTube
\* page without a video id, a page of no platform, text that is no URL, and
\* the empty string.
Urls ==
  {U_YT, U_VIMEO, U_PT, U_YT_CHANNEL, U_UNKNOWN, U_INVALID, U_EMPTY}

\* URLs detectPlatform and the fetchers are called with on their own: the
\* ones above, and a PeerTube path with no origin, one with an identifier
\* of 37 characters, one with no identifier, one with a port, the YouTube
\* home page, YouTube and Vimeo pages with a PeerTube path, and a YouTube
\* address with no scheme, and a second URL of the video of U_YT.
DirectUrls ==
  Urls \cup {U_PT_REL, U_PT_LONG, U_PT_ABOUT, U_PT_WATCH, U_YT_HOME, U_YT_W,
             U_VIMEO_WATCH, U_YT_BARE, U_YT_T}

\* Further URLs extractYouTubeId is called with: one of each pattern, two
\* in which a later pattern matches to the left of an earlier one, and one
\* whose v parameter is empty.
ExtractUrls ==
  {U_YT_WATCH, U_YT_EMBED, U_YT_V, U_YT_SHORTS, U_YT_SHORTS_T, U_YT_SHORTS_V,
   U_YT_NO_ID}

\* What the code computes from a URL alone, for the URLs above: the platform
\* getVideoThumbnail detects, the videoId of fetchYouTubeThumbnail, and the
\* urlObj and uuidMatch of fetchPeerTubeThumbnail.
platformOf ==
  [u \in DirectUrls |-> detectPlatform(u)]

videoIdOf ==
  [u \in DirectUrls \cup ExtractUrls |-> extractYouTubeId(u)]

urlObjOf ==
  [u \in DirectUrls |-> URLParse(u)]

uuidMatchOf ==
  [u \in DirectUrls |-> uuidMatch(u)]

\* What the transport answers a fetch() with: a response with ok true or
\* false, or a rejection.
Responses ==
  {"ok", "notok", "throw"}

\* What res.json() yields (besides throwing on a malformed body).
PeerTubeBodies ==
  [thumbnailPath : {Undefined, JsNull, Str(<<>>), Str(S_path_t)},
   previewPath : {Undefined, Str(S_path_p)}]

VimeoBody(url, width, height) ==
  [thumbnail_url |-> url, thumbnail_width |-> width, thumbnail_height |-> height]

VimeoBodies ==
  {VimeoBody(Undefined, Num(1280), Num(720)),
   VimeoBody(Str(S_thumb_x), Undefined, Undefined),
   VimeoBody(Str(S_thumb_x), Num(1280), Undefined),
   VimeoBody(Str(S_thumb_x), Undefined, Num(720)),
   VimeoBody(Str(S_thumb_x), Num(0), Num(0)),
   VimeoBody(Str(S_thumb_x), Num(-1), Num(-1))}

MalformedJson ==
  [malformed |-> TRUE]

\* No body was read.
NoBody ==
  [none |-> TRUE]

(***************************************************************************)
(* State.                                                                  *)
(***************************************************************************)
VARIABLES
  thumbnailCache,   \* the Map of cache.ts
  now,              \* Date.now()
  started,          \* how many times getVideoThumbnail has been called
  calls,            \* the suspended getVideoThumbnail invocations, oldest first
  event,            \* the last step taken and what it returned to its caller
  snap              \* the getCacheStats result a caller has kept

vars ==
  <<thumbnailCache, now, started, calls, event, snap>>

\* A suspended invocation: pc is the await it is suspended at, idx the
\* candidate fetchYouTubeThumbnail is probing, nreq the transport requests the
\* invocation has issued, result what its fetcher returned, evicted whether
\* the invocation deleted an expired entry before it went on to fetch,
\* direct whether it is a fetcher called on its own.
Call(videoUrl, platform, evicted) ==
  [pc |-> "start", url |-> videoUrl, platform |-> platform, idx |-> 0, nreq |-> 0,
   result |-> Null, evicted |-> evicted, direct |-> FALSE]

\* An invocation of a fetcher by a caller other than getVideoThumbnail.
DirectCall(fetcher, url) ==
  [Call(url, fetcher, FALSE) EXCEPT !.direct = TRUE]

Calls ==
  1..Len(calls)

Remove(s, i) ==
  SubSeq(s, 1, i - 1) \o SubSeq(s, i + 1, Len(s))

NoSnap ==
  [taken |-> FALSE]

Init ==
  /\ thumbnailCache = <<>>
  /\ now = 0
  /\ started = 0
  /\ calls = <<>>
  /\ event = [op |-> "init"]
  /\ snap = NoSnap

(***************************************************************************)
(* getVideoThumbnail.  An async function runs without interruption from    *)
(* one await to the next; each action below is one such stretch.           *)
(***************************************************************************)
\* The fetcher returns `result` without awaiting anything (more): the
\* `await fetchXThumbnail(videoUrl)` of getVideoThumbnail resumes with it in
\* the microtasks that follow, before any other response is delivered.
Settle(call, result) ==
  [call EXCEPT !.pc = "settled", !.result = result]

\* A fetcher that sends each request twice at once.
RequestPair(call, pc) ==
  [call EXCEPT !.pc = pc, !.nreq = call.nreq + 2]

\* A transport request goes out and the fetcher awaits its response.
Request(call, pc) ==
  [call EXCEPT !.pc = pc, !.nreq = call.nreq + 1]

\* An exception is on its way out of the code that the call is running.
Throw(call) ==
  [call EXCEPT !.pc = "thrown"]

\* A try block that lets its exception pass.
CatchNothing(attempt, handled) ==
  attempt

\* try { attempt } catch { handled }
Catch(attempt, handled) ==
  IF attempt.pc = "thrown" THEN handled ELSE attempt

\* A loop that asks for the same candidate again.
NextProbeSame(call) ==
  Request([call EXCEPT !.idx = IF call.idx = 0 THEN 1 ELSE call.idx], "head")

\* The for loop of fetchYouTubeThumbnail goes on to its next candidate, or
\* ends (fetchers.ts 18, 35).
NextProbe(call) ==
  IF call.idx < Len(thumbnails(<<>>))
    THEN Request([call EXCEPT !.idx = call.idx + 1], "head")
    ELSE Settle(call, Null)

\* fetchYouTubeThumbnail up to its first await (fetchers.ts 9-20).
fetchYouTubeThumbnailBegin(call) ==
  IF ~videoIdOf[call.url].found
    THEN Settle(call, Null)
    ELSE NextProbe(call)

\* fetchPeerTubeThumbnail up to its first await (fetchers.ts 42-54).
fetchPeerTubeThumbnailBegin(call) ==
  Catch(IF ~urlObjOf[call.url].ok THEN Throw(call)
        ELSE IF ~uuidMatchOf[call.url].found THEN Settle(call, Null)
        ELSE Request(call, "get"),
        Settle(call, Null))

\* fetchVimeoThumbnail up to its first await (fetchers.ts 77-82).
fetchVimeoThumbnailBegin(call) ==
  Catch(Request(call, "get"), Settle(call, Null))

\* The switch of getVideoThumbnail.
Dispatch(call) ==
  CASE call.platform = "youtube" -> fetchYouTubeThumbnailBegin(call)
    [] call.platform = "peertube" -> fetchPeerTubeThumbnailBegin(call)
    [] call.platform = "vimeo" -> fetchVimeoThumbnailBegin(call)
    [] OTHER -> Settle(call, Null)

\* The URL of the request a suspended call is waiting on.
RequestUrl(call) ==
  CASE call.pc = "head" -> thumbnails(videoIdOf[call.url].value)[call.idx].url
    [] call.pc = "get" /\ call.platform = "peertube" ->
         apiUrl(urlObjOf[call.url].origin, uuidMatchOf[call.url].value)
    [] call.pc = "get" /\ call.platform = "vimeo" -> oembedUrl(call.url)
    [] OTHER -> <<>>

\* !platform
Unsupported(platform) ==
  platform = NoPlatform

\* What a step of a getVideoThumbnail invocation shows its caller and the
\* transport: op is "call" when the invocation has just been called and is
\* suspended, "await" when it has taken a response and is suspended again,
\* "return" when it has returned ret, and "throw" when an exception has left
\* it; c is the place the invocation had among the suspended ones (0 when it
\* has just been called), res the response it took, nreq the transport
\* requests it has issued so far, fetched whether it got as far as calling
\* a fetcher, direct whether it is a fetcher called on its own, body what
\* res.json() gave it in this step.
Step(op, c, call, res, body, fetched) ==
  [op |-> op, c |-> c, url |-> call.url, ret |-> call.result, res |-> res,
   nreq |-> call.nreq, fetched |-> fetched, evicted |-> call.evicted,
   direct |-> call.direct, platform |-> call.platform, body |-> body]

\* How a call that has ended left its caller: nothing in getVideoThumbnail
\* catches what a fetcher throws.
Outcome(call) ==
  IF call.pc = "thrown" THEN "throw" ELSE "return"

\* An end of getVideoThumbnail that stores whatever the fetcher settled with.
FinishAlways(m, call, t) ==
  MapSet(m, call.url, call.result, t)

\* The end of getVideoThumbnail (cache.ts 50-54), for the invocation `call`
\* whose fetcher has settled.
Finish(m, call, t) ==
  IF call.result # Null THEN MapSet(m, call.url, call.result, t) ELSE m

\* What the end of a call does to the store: only getVideoThumbnail, and
\* only when its fetcher has returned, gets to cache.ts 50-52.
Stored(m, call, t) ==
  IF call.direct \/ call.pc = "thrown" THEN m ELSE Finish(m, call, t)

\* A step of the fetcher of invocation c on response res, which leaves it
\* as `call`: suspended at its next await, or settled, and then
\* getVideoThumbnail finishes.
Continue(c, call, res, body) ==
  IF call.pc \in {"settled", "thrown"}
    THEN /\ thumbnailCache' = Stored(thumbnailCache, call, now)
         /\ calls' = Remove(calls, c)
         /\ event' = Step(Outcome(call), c, call, res, body, TRUE)
    ELSE /\ calls' = [calls EXCEPT ![c] = call]
         /\ event' = Step("await", c, call, res, body, TRUE)
         /\ UNCHANGED thumbnailCache

\* getVideoThumbnail(videoUrl) from its call to its first await on the
\* transport, or to its return when it does not get that far (cache.ts 23-55).
getVideoThumbnail(videoUrl) ==
  /\ started < MaxCalls
  /\ started' = started + 1
  /\ LET found == MapHas(thumbnailCache, videoUrl)
         cached == thumbnailCache[MapIndex(thumbnailCache, videoUrl)]
         hit == found /\ IsFresh(now - cached.timestamp)
         platform == platformOf[videoUrl]
         entered == Call(videoUrl, platform, found)
         call == Dispatch(entered)
     IN  IF hit
           THEN /\ event' = Step("return", 0,
                                 [entered EXCEPT !.result = CachedCopy(cached.result),
                                                 !.evicted = FALSE],
                                 "none", NoBody, FALSE)
                /\ UNCHANGED <<thumbnailCache, calls>>
           ELSE /\ IF Unsupported(platform)
                     THEN /\ thumbnailCache' = MapDelete(thumbnailCache, videoUrl)
                          /\ event' = Step("return", 0, entered, "none", NoBody, FALSE)
                          /\ UNCHANGED calls
                     ELSE IF call.pc \in {"settled", "thrown"}
                       THEN /\ thumbnailCache' =
                                 Stored(MapDelete(thumbnailCache, videoUrl), call, now)
                            /\ event' = Step(Outcome(call), 0, call, "none", NoBody, TRUE)
                            /\ UNCHANGED calls
                       ELSE /\ thumbnailCache' = MapDelete(thumbnailCache, videoUrl)
                            /\ calls' = Append(calls, call)
                            /\ event' = Step("call", 0, call, "none", NoBody, TRUE)
  /\ UNCHANGED <<now, snap>>

\* fetchYouTubeThumbnail from the response to a probe to the next probe or to
\* its return (fetchers.ts 18-35).
fetchYouTubeThumbnail(c, res) ==
  /\ calls[c].pc = "head"
  /\ LET call == calls[c]
         thumb == thumbnails(videoIdOf[call.url].value)[call.idx]
     IN  Continue(c, Catch(IF res = "throw" THEN Throw(call)
                           ELSE IF res = "ok" THEN Settle(call, YouTubeResult(thumb))
                           ELSE NextProbe(call),
                           NextProbe(call)),
                  res, NoBody)
  /\ UNCHANGED <<now, started, snap>>

\* fetchPeerTubeThumbnail and fetchVimeoThumbnail from the response to their
\* GET to `await res.json()` or to their return (fetchers.ts 52-57, 80-85).
fetchResponse(c, res) ==
  /\ calls[c].pc = "get"
  /\ Continue(c, Catch(IF res = "throw" THEN Throw(calls[c])
                       ELSE IF res = "ok" THEN [calls[c] EXCEPT !.pc = "json"]
                       ELSE Settle(calls[c], Null),
                       Settle(calls[c], Null)),
              res, NoBody)
  /\ UNCHANGED <<now, started, snap>>

\* fetchPeerTubeThumbnail from the parsed body to its return (fetchers.ts 57-70).
fetchPeerTubeThumbnail(c, data) ==
  /\ calls[c].pc = "json"
  /\ calls[c].platform = "peertube"
  /\ Continue(c, Catch(IF data = MalformedJson THEN Throw(calls[c])
                       ELSE Settle(calls[c],
                                   PeerTubeResult(urlObjOf[calls[c].url].origin, data)),
                       Settle(calls[c], Null)),
              IF data = MalformedJson THEN "throw" ELSE "ok", data)
  /\ UNCHANGED <<now, started, snap>>

\* fetchVimeoThumbnail from the parsed body to its return (fetchers.ts 85-97).
fetchVimeoThumbnail(c, data) ==
  /\ calls[c].pc = "json"
  /\ calls[c].platform = "vimeo"
  /\ Continue(c, Catch(IF data = MalformedJson THEN Throw(calls[c])
                       ELSE Settle(calls[c], VimeoResult(data)),
                       Settle(calls[c], Null)),
              IF data = MalformedJson THEN "throw" ELSE "ok", data)
  /\ UNCHANGED <<now, started, snap>>

(***************************************************************************)
(* The other operations of cache.ts, and the clock.                        *)
(***************************************************************************)
\* removed: how many entries the call dropped.
clearThumbnailCache ==
  /\ thumbnailCache' = MapClear(thumbnailCache)
  /\ event' = [op |-> "clearThumbnailCache", removed |-> Len(thumbnailCache)]
  /\ UNCHANGED <<now, started, calls, snap>>

\* keep: whether the caller keeps the object it is returned.
getCacheStats(keep) ==
  /\ LET stats == [size |-> Len(thumbnailCache),
                   keys |-> ArrayFrom(MapKeys(thumbnailCache))]
     IN  /\ event' = [op |-> "getCacheStats", ret |-> stats]
         /\ snap' = IF keep
                      THEN [taken |-> TRUE, stats |-> stats,
                            seen |-> [size |-> stats.size, keys |-> stats.keys.items]]
                      ELSE snap
  /\ UNCHANGED <<thumbnailCache, now, started, calls>>

pruneExpiredCache ==
  /\ thumbnailCache' = SelectSeq(thumbnailCache, LAMBDA e : ~IsExpired(now, e.timestamp))
  /\ event' = [op |-> "pruneExpiredCache",
               ret |-> Cardinality({i \in 1..Len(thumbnailCache) :
                                      IsExpired(now, thumbnailCache[i].timestamp)})]
  /\ UNCHANGED <<now, started, calls, snap>>

\* The clock never runs backwards.
Tick(t) ==
  /\ t > now
  /\ now' = t
  /\ event' = [op |-> "tick"]
  /\ UNCHANGED <<thumbnailCache, started, calls, snap>>

Next ==
  \/ \E u \in Urls : getVideoThumbnail(u)
  \/ \E c \in Calls, res \in Responses : fetchYouTubeThumbnail(c, res)
  \/ \E c \in Calls, res \in Responses : fetchResponse(c, res)
  \/ \E c \in Calls, data \in PeerTubeBodies \cup {MalformedJson} : fetchPeerTubeThumbnail(c, data)
  \/ \E c \in Calls, data \in VimeoBodies \cup {MalformedJson} : fetchVimeoThumbnail(c, data)
  \/ clearThumbnailCache
  \/ getCacheStats(FALSE)
  \/ pruneExpiredCache
  \/ \E t \in Instants : Tick(t)

Spec ==
  Init /\ [][Next]_vars

(***************************************************************************)
(* index.ts also exports detectPlatform, extractYouTubeId and the three    *)
(* fetchers: callers that use them on their own.                           *)
(***************************************************************************)
\* fetchYouTubeThumbnail(url), fetchPeerTubeThumbnail(url) or
\* fetchVimeoThumbnail(url), by the name of its platform, from its call to
\* its first await or to its return.  A fetcher touches nothing but its own
\* variables, so the caller here awaits each call before it makes the next.
callFetcher(fetcher, url) ==
  /\ calls = <<>>
  /\ started < MaxCalls
  /\ started' = started + 1
  /\ LET call == Dispatch(DirectCall(fetcher, url))
     IN  IF call.pc \in {"settled", "thrown"}
           THEN /\ event' = Step(Outcome(call), 0, call, "none", NoBody, TRUE)
                /\ UNCHANGED calls
           ELSE /\ calls' = Append(calls, call)
                /\ event' = Step("call", 0, call, "none", NoBody, TRUE)
  /\ UNCHANGED <<thumbnailCache, now, snap>>

callDetectPlatform(url) ==
  /\ calls = <<>>
  /\ event' = [op |-> "detectPlatform", url |-> url, ret |-> platformOf[url]]
  /\ UNCHANGED <<thumbnailCache, now, started, calls, snap>>

callExtractYouTubeId(url) ==
  /\ calls = <<>>
  /\ event' = [op |-> "extractYouTubeId", url |-> url, ret |-> videoIdOf[url]]
  /\ UNCHANGED <<thumbnailCache, now, started, calls, snap>>

NextDirect ==
  \/ \E u \in Urls : getVideoThumbnail(u)
  \/ \E fetcher \in Platforms, u \in DirectUrls : callFetcher(fetcher, u)
  \/ \E u \in DirectUrls : callDetectPlatform(u)
  \/ \E u \in DirectUrls \cup ExtractUrls : callExtractYouTubeId(u)
  \/ \E c \in Calls, res \in Responses : fetchYouTubeThumbnail(c, res)
  \/ \E c \in Calls, res \in Responses : fetchResponse(c, res)
  \/ \E c \in Calls, data \in PeerTubeBodies \cup {MalformedJson} : fetchPeerTubeThumbnail(c, data)
  \/ \E c \in Calls, data \in VimeoBodies \cup {MalformedJson} : fetchVimeoThumbnail(c, data)

SpecDirect ==
  Init /\ [][NextDirect]_vars

\* Callers that keep what getCacheStats returned, and ask for YouTube and
\* PeerTube thumbnails.
KeepUrls ==
  {U_YT, U_PT, U_VIMEO}

NextKeep ==
  \/ \E u \in KeepUrls : getVideoThumbnail(u)
  \/ \E c \in Calls, res \in Responses : fetchYouTubeThumbnail(c, res)
  \/ \E c \in Calls, res \in Responses : fetchResponse(c, res)
  \/ \E c \in Calls, data \in PeerTubeBodies \cup {MalformedJson} : fetchPeerTubeThumbnail(c, data)
  \/ clearThumbnailCache
  \/ \E keep \in BOOLEAN : getCacheStats(keep)
  \/ pruneExpiredCache
  \/ \E t \in Instants : Tick(t)

SpecKeep ==
  Init /\ [][NextKeep]_vars

\* Callers that ask for one video under two spellings of its URL.
AliasUrls ==
  {U_YT, U_YT_T}

NextAlias ==
  \/ \E u \in AliasUrls : getVideoThumbnail(u)
  \/ \E c \in Calls, res \in Responses : fetchYouTubeThumbnail(c, res)
  \/ pruneExpiredCache
  \/ \E t \in Instants : Tick(t)

SpecAlias ==
  Init /\ [][NextAlias]_vars

\* Callers that ask for one video again once its thumbnail is in the store:
\* the behaviours that go on from the state in which a first call has
\* stored the best thumbnail of U_YT and returned.  started counts the
\* calls made from there on.
InitRefetch ==
  /\ thumbnailCache = MapSet(<<>>, U_YT,
                             YouTubeResult(thumbnails(videoIdOf[U_YT].value)[1]), 0)
  /\ now = 0
  /\ started = 0
  /\ calls = <<>>
  /\ event = [op |-> "init"]
  /\ snap = NoSnap

NextRefetch ==
  \/ getVideoThumbnail(U_YT)
  \/ \E c \in Calls, res \in Responses : fetchYouTubeThumbnail(c, res)
  \/ getCacheStats(FALSE)
  \/ \E t \in Instants : Tick(t)

SpecRefetch ==
  InitRefetch /\ [][NextRefetch]_vars

\* The transport answers the request invocation c is suspended on, or the
\* body of the response it has is read.
Respond(c) ==
  /\ c \in Calls
  /\ \/ \E res \in Responses : fetchYouTubeThumbnail(c, res)
     \/ \E res \in Responses : fetchResponse(c, res)
     \/ \E data \in PeerTubeBodies \cup {MalformedJson} : fetchPeerTubeThumbnail(c, data)
     \/ \E data \in VimeoBodies \cup {MalformedJson} : fetchVimeoThumbnail(c, data)

\* Callers of getVideoThumbnail, clearThumbnailCache and pruneExpiredCache
\* with a transport that answers every request, with a response or with a
\* failure: no invocation stays suspended for ever on a request.  The
\* clock stands still here: time plays no part in whether a call returns.
LiveUrls ==
  {U_YT, U_PT, U_VIMEO}

NextLive ==
  \/ \E u \in LiveUrls : getVideoThumbnail(u)
  \/ \E c \in 1..MaxCalls : Respond(c)
  \/ clearThumbnailCache
  \/ pruneExpiredCache

SpecLive ==
  /\ Init
  /\ [][NextLive]_vars
  /\ \A c \in 1..MaxCalls : WF_vars(Respond(c))


\* ---------------------------------------------------------------------
\* Properties of the thumbnail store.
\*
\* A step is a call of getVideoThumbnail exactly when it changes started;
\* event' then carries the URL it was called with and what it did before
\* it first suspended or returned.
\* ---------------------------------------------------------------------
Entry(m, k) ==
  m[MapIndex(m, k)]

Age(m, k) ==
  now - Entry(m, k).timestamp

SameDescriptor(a, b) ==
  /\ a.url = b.url
  /\ a.width = b.width
  /\ a.height = b.height
  /\ a.platform = b.platform

\* C1: a getVideoThumbnail call for a URL whose entry is younger than
\* CACHE_TTL returns that entry's URL, width, height and platform with
\* cached = true, without a transport request and without touching the
\* store.
C1_FreshEntryServed ==
  [][\A u \in Urls :
       (/\ started' # started
        /\ event'.url = u
        /\ MapHas(thumbnailCache, u)
        /\ Age(thumbnailCache, u) < CACHE_TTL)
       => /\ event'.op = "return"
          /\ event'.ret # Null
          /\ SameDescriptor(event'.ret, Entry(thumbnailCache, u).result)
          /\ event'.ret.cached = TRUE
          /\ event'.nreq = 0
          /\ ~event'.fetched
          /\ calls' = calls
          /\ thumbnailCache' = thumbnailCache]_vars

\* An entry one millisecond short of CACHE_TTL has just been served.
C1_Witness ==
  /\ event.op = "return"
  /\ ~event.fetched
  /\ event.ret # Null
  /\ event.ret.cached
  /\ MapHas(thumbnailCache, event.url)
  /\ Age(thumbnailCache, event.url) = CACHE_TTL - 1

\* C2: once time has advanced past CACHE_TTL since an entry was stored, a
\* getVideoThumbnail call for its URL drops the entry and performs a new
\* fetch, and what that fetch returns carries cached = false; while less
\* than CACHE_TTL has elapsed the call returns cached = true without a
\* fetch.
C2_ExpiredEntryRefetched ==
  /\ [][\A u \in Urls :
          (started' # started /\ event'.url = u /\ MapHas(thumbnailCache, u))
          => /\ Age(thumbnailCache, u) > CACHE_TTL
                => /\ event'.op = "call"
                   /\ event'.fetched
                   /\ event'.evicted
                   /\ event'.nreq = 1
                   /\ ~MapHas(thumbnailCache', u)
                   /\ Len(calls') = Len(calls) + 1
             /\ Age(thumbnailCache, u) < CACHE_TTL
                => /\ event'.op = "return"
                   /\ event'.ret.cached = TRUE
                   /\ ~event'.fetched
                   /\ event'.nreq = 0]_vars
  /\ [](event.op = "return" /\ event.fetched /\ event.ret # Null
          => event.ret.cached = FALSE)

\* A call that found its entry expired has fetched again and returned the
\* new result.
C2_Witness ==
  /\ event.op = "return"
  /\ event.evicted
  /\ event.fetched
  /\ event.ret # Null
  /\ ~event.ret.cached
  /\ now > CACHE_TTL

\* C3: when a getVideoThumbnail call has returned a fetched result (cached
\* = false) and the next thing to happen is a second call with the same
\* URL, the second call returns cached = true with the same url, width,
\* height and platform, and no fetcher runs for it: the two calls made one
\* fetch.
C3_SecondCallServedFromStore ==
  [][(/\ event.op = "return"
      /\ event.fetched
      /\ event.ret # Null
      /\ started' # started
      /\ event'.url = event.url)
     => /\ event.ret.cached = FALSE
        /\ event'.op = "return"
        /\ event'.ret = [event.ret EXCEPT !.cached = TRUE]
        /\ SameDescriptor(event'.ret, event.ret)
        /\ event'.ret.cached = TRUE
        /\ ~event'.fetched
        /\ event'.nreq = 0
        /\ calls' = calls
        /\ thumbnailCache' = thumbnailCache]_vars

\* The second of two calls in succession has been served from the entry the
\* first one stored at this very instant.
C3_Witness ==
  /\ event.op = "return"
  /\ ~event.fetched
  /\ event.ret # Null
  /\ event.ret.cached
  /\ started = 2
  /\ calls = <<>>
  /\ Len(thumbnailCache) = 1
  /\ Age(thumbnailCache, event.url) = 0

Keys(m) ==
  {m[i].key : i \in 1..Len(m)}

\* C4: every entry of the store holds a result a fetcher produced on
\* success (a descriptor of a supported platform with cached = false, never
\* none), no key is held twice, and a call that returns none leaves the
\* store without any key it did not hold before.
C4_OnlySuccessfulFetchesStored ==
  /\ [](\A i \in 1..Len(thumbnailCache) :
          /\ thumbnailCache[i].result # Null
          /\ thumbnailCache[i].result.cached = FALSE
          /\ thumbnailCache[i].result.platform \in Platforms
          /\ thumbnailCache[i].result.platform = platformOf[thumbnailCache[i].key]
          /\ \A j \in 1..Len(thumbnailCache) :
               thumbnailCache[j].key = thumbnailCache[i].key => j = i)
  /\ [][(event'.op = "return" /\ event'.ret = Null)
        => Keys(thumbnailCache') \subseteq Keys(thumbnailCache)]_vars
  /\ [][(event'.op = "return" /\ event'.fetched /\ event'.ret # Null)
        => /\ MapHas(thumbnailCache', event'.url)
           /\ Entry(thumbnailCache', event'.url).result = event'.ret
           /\ Entry(thumbnailCache', event'.url).timestamp = now]_vars

\* A fetch has come back with none while the store holds the result of an
\* earlier fetch of another URL.
C4_Witness ==
  /\ event.op = "return"
  /\ event.fetched
  /\ event.nreq > 0
  /\ event.ret = Null
  /\ Len(thumbnailCache) = 1
  /\ ~MapHas(thumbnailCache, event.url)

\* C5 as the specification states it: a call whose fetcher returned none
\* has left the store as it found it, so it has deleted nothing.
C5_Original ==
  (event.op = "return" /\ event.fetched /\ event.ret = Null)
  => ~event.evicted

\* C5: a getVideoThumbnail call whose fetcher returns none returns none and
\* neither adds nor changes an entry; the one thing it may have done to the
\* store is to delete, when it began, the entry of its own URL, and that
\* only if the entry's age had reached CACHE_TTL.
C5_NoneLeavesNoEntry ==
  /\ [][(started' # started /\ event'.fetched)
        => /\ thumbnailCache'
                = SelectSeq(thumbnailCache, LAMBDA e : e.key # event'.url)
           /\ event'.evicted = MapHas(thumbnailCache, event'.url)
           /\ MapHas(thumbnailCache, event'.url)
                => Age(thumbnailCache, event'.url) >= CACHE_TTL]_vars
  /\ [][(started' = started /\ event'.op = "return" /\ event'.ret = Null)
        => /\ event'.fetched
           /\ thumbnailCache' = thumbnailCache]_vars
  /\ [][(started' = started /\ event'.op = "await")
        => thumbnailCache' = thumbnailCache]_vars

\* A call that found its entry expired has fetched and returned none: the
\* URL that had an entry when the call began has none now.
C5_Witness ==
  /\ event.op = "return"
  /\ event.fetched
  /\ event.ret = Null
  /\ event.evicted
  /\ event.nreq > 0
  /\ ~MapHas(thumbnailCache, event.url)

Unclassified ==
  {U_UNKNOWN, U_INVALID, U_EMPTY}

\* C6: a URL that cannot be parsed, is empty, or matches no supported
\* platform is one detectPlatform does not classify; getVideoThumbnail
\* returns none for it without a transport request and without a change to
\* the store.
C6_UnsupportedUrlReturnsNone ==
  [][started' # started
     => /\ (event'.url \in Unclassified) = (detectPlatform(event'.url) = NoPlatform)
        /\ event'.url \in Unclassified
           => /\ event'.op = "return"
              /\ event'.ret = Null
              /\ event'.nreq = 0
              /\ ~event'.fetched
              /\ calls' = calls
              /\ thumbnailCache' = thumbnailCache]_vars

\* The unparseable URL has been answered with none while the store holds an
\* entry.
C6_Witness ==
  /\ event.op = "return"
  /\ event.url = U_INVALID
  /\ event.ret = Null
  /\ event.nreq = 0
  /\ Len(thumbnailCache) = 1

\* C7: pruneExpiredCache removes exactly the entries whose age is at least
\* CACHE_TTL, leaves the others as they were and in their order, and
\* returns the number it removed; on an empty store, on a store of fresh
\* entries only, and right after another prune it returns 0 and changes
\* nothing.
C7_PruneRemovesExactlyExpired ==
  /\ [][event'.op = "pruneExpiredCache"
        => /\ thumbnailCache'
                = SelectSeq(thumbnailCache, LAMBDA e : now - e.timestamp < CACHE_TTL)
           /\ event'.ret = Len(thumbnailCache) - Len(thumbnailCache')
           /\ event'.ret
                = Cardinality({i \in 1..Len(thumbnailCache) :
                                 now - thumbnailCache[i].timestamp >= CACHE_TTL})
           /\ (\A i \in 1..Len(thumbnailCache) :
                 now - thumbnailCache[i].timestamp < CACHE_TTL)
              => (event'.ret = 0 /\ thumbnailCache' = thumbnailCache)
           /\ event.op = "pruneExpiredCache"
              => (event'.ret = 0 /\ thumbnailCache' = thumbnailCache)
           /\ UNCHANGED <<now, started, calls>>]_vars
  /\ [](event.op = "pruneExpiredCache"
          => \A i \in 1..Len(thumbnailCache) :
               now - thumbnailCache[i].timestamp < CACHE_TTL)

\* A prune of a store of two has removed the entry aged exactly CACHE_TTL
\* and kept the one a millisecond younger.
C7_Witness ==
  /\ event.op = "pruneExpiredCache"
  /\ event.ret = 1
  /\ Len(thumbnailCache) = 1
  /\ now - thumbnailCache[1].timestamp = CACHE_TTL - 1

\* C8: clearThumbnailCache can always be called and leaves the store empty,
\* whatever the ages and platforms of the entries it held; getCacheStats
\* called next reports size 0 and no keys; clearing an empty store leaves
\* it empty.
C8_ClearEmptiesStore ==
  /\ [](ENABLED clearThumbnailCache)
  /\ [][event'.op = "clearThumbnailCache"
        => /\ thumbnailCache' = <<>>
           /\ event'.removed = Len(thumbnailCache)
           /\ UNCHANGED <<now, started, calls>>]_vars
  /\ [][(event.op = "clearThumbnailCache" /\ event'.op = "getCacheStats")
        => /\ event'.ret.size = 0
           /\ event'.ret.keys.items = <<>>]_vars
  /\ [][(event.op = "clearThumbnailCache" /\ event'.op = "clearThumbnailCache")
        => (event'.removed = 0 /\ thumbnailCache' = <<>>)]_vars

\* A clear, a day into the run, has dropped the two entries the store
\* held.
C8_Witness ==
  /\ event.op = "clearThumbnailCache"
  /\ event.removed = 2
  /\ thumbnailCache = <<>>
  /\ now = CACHE_TTL

\* What a caller reads from a key array it was given: the items it holds,
\* or the store's keys if the array is the store's own.
ReadKeys(arr) ==
  IF arr.live THEN MapKeys(thumbnailCache) ELSE arr.items

\* C9: getCacheStats returns the number of entries and exactly the URLs
\* stored, and leaves the store as it is; a result it returned earlier
\* still reads as it did when returned, whatever getVideoThumbnail,
\* clearThumbnailCache and pruneExpiredCache have done to the store since.
C9_StatsIsSnapshot ==
  /\ [][event'.op = "getCacheStats"
        => /\ event'.ret.size = Len(thumbnailCache)
           /\ Len(event'.ret.keys.items) = Len(thumbnailCache)
           /\ {event'.ret.keys.items[i] : i \in 1..Len(event'.ret.keys.items)}
                = Keys(thumbnailCache)
           /\ UNCHANGED <<thumbnailCache, now, started, calls>>]_vars
  /\ [](snap.taken
          => /\ snap.stats.size = snap.seen.size
             /\ ReadKeys(snap.stats.keys) = snap.seen.keys)

\* A kept result lists a key the store has since lost.
C9_Witness ==
  /\ snap.taken
  /\ snap.seen.size = 1
  /\ thumbnailCache = <<>>
  /\ event.op \in {"clearThumbnailCache", "pruneExpiredCache"}

\* The three candidates for the video of U_YT, in the order the specification gives.
Candidates ==
  << [name |-> S_maxres, width |-> 1280, height |-> 720],
     [name |-> S_hq, width |-> 480, height |-> 360],
     [name |-> S_mq, width |-> 320, height |-> 180] >>

CandidateUrl(k) ==
  S_img_prefix \o <<"a", "1">> \o Candidates[k].name

\* C10: fetchYouTubeThumbnail probes maxresdefault (1280x720), then
\* hqdefault (480x360), then mqdefault (320x180), with one probe
\* outstanding at a time; an ok probe makes it return that candidate's
\* descriptor with no further probe; a probe that is not ok or throws makes
\* it probe the next candidate; it returns none exactly when the third
\* probe, like the two before, is not ok or throws.
C10_YouTubeProbesInOrder ==
  /\ [][(started' # started /\ event'.url = U_YT /\ event'.fetched)
        => /\ event'.op = "call"
           /\ event'.nreq = 1
           /\ calls'[Len(calls')].pc = "head"
           /\ RequestUrl(calls'[Len(calls')]) = CandidateUrl(1)]_vars
  /\ [][(started' = started /\ event'.op \in {"await", "return"} /\ event'.url = U_YT)
        => LET c == event'.c
               k == calls[c].nreq
           IN  /\ k \in 1..3
               /\ calls[c].pc = "head"
               /\ RequestUrl(calls[c]) = CandidateUrl(k)
               /\ event'.res = "ok"
                  => /\ event'.op = "return"
                     /\ event'.nreq = k
                     /\ event'.ret = [url |-> CandidateUrl(k),
                                      width |-> Candidates[k].width,
                                      height |-> Candidates[k].height,
                                      platform |-> "youtube",
                                      cached |-> FALSE]
                     /\ Len(calls') = Len(calls) - 1
               /\ (event'.res # "ok" /\ k < 3)
                  => /\ event'.op = "await"
                     /\ event'.nreq = k + 1
                     /\ Len(calls') = Len(calls)
                     /\ calls'[c].pc = "head"
                     /\ RequestUrl(calls'[c]) = CandidateUrl(k + 1)
               /\ (event'.res # "ok" /\ k = 3)
                  => /\ event'.op = "return"
                     /\ event'.nreq = 3
                     /\ event'.ret = Null
                     /\ Len(calls') = Len(calls) - 1]_vars
  /\ [](event.op = "return" /\ event.url = U_YT /\ event.fetched
          => (event.ret = Null) = (event.nreq = 3 /\ event.res # "ok"))

\* The third probe was ok after the first threw or was not ok and the
\* second likewise: the smallest candidate has been returned.
C10_Witness ==
  /\ event.op = "return"
  /\ event.url = U_YT
  /\ event.fetched
  /\ event.nreq = 3
  /\ event.res = "ok"
  /\ event.ret # Null
  /\ event.ret.width = 320

\* ---------------------------------------------------------------------
\* Properties of the fetchers and of detectPlatform, called through
\* getVideoThumbnail or on their own.
\* ---------------------------------------------------------------------
IsCallStep(e) ==
  e.op \in {"call", "await", "return", "throw"}

IsThumbnailResult(r) ==
  /\ DOMAIN r = {"url", "width", "height", "platform", "cached"}
  /\ r.platform \in Platforms
  /\ r.cached \in BOOLEAN

\* C11: no exception leaves a fetcher or getVideoThumbnail: whatever the
\* transport does (a rejected request, a response that is not ok, a body
\* that does not parse), each of them goes on or returns, and what it
\* returns is a ThumbnailResult or none; after a rejection or a body that
\* does not parse it returns none or, for YouTube, probes on.
C11_NoExceptionEscapes ==
  /\ [](IsCallStep(event)
          => /\ event.op # "throw"
             /\ event.op = "return"
                => (event.ret = Null \/ IsThumbnailResult(event.ret)))
  /\ [][(IsCallStep(event') /\ event'.res = "throw")
        => \/ event'.op = "return" /\ event'.ret = Null
           \/ /\ event'.op = "await"
              /\ event'.platform = "youtube"
              /\ event'.nreq \in 2..3]_vars

\* fetchVimeoThumbnail, called on its own, has returned none after its
\* request was rejected or its body did not parse.
C11_Witness ==
  /\ event.op = "return"
  /\ event.direct
  /\ event.platform = "vimeo"
  /\ event.res = "throw"
  /\ event.nreq = 1
  /\ event.ret = Null

\* The step took a successful upstream response: an ok probe, or an ok API
\* response whose body names a thumbnail.
Successful(e) ==
  /\ e.res = "ok"
  /\ \/ e.platform = "youtube"
     \/ /\ e.platform = "peertube"
        /\ e.body # NoBody
        /\ \/ e.body.thumbnailPath = Str(S_path_t)
           \/ /\ e.body.thumbnailPath \in {Undefined, JsNull}
              /\ e.body.previewPath = Str(S_path_p)
     \/ /\ e.platform = "vimeo"
        /\ e.body # NoBody
        /\ e.body.thumbnail_url = Str(S_thumb_x)

ExpectedPlatform(u) ==
  CASE u \in {U_INVALID, U_EMPTY, U_PT_REL, U_YT_BARE} -> NoPlatform
    [] u \in {U_YT, U_YT_T, U_YT_CHANNEL, U_YT_HOME, U_YT_W} -> "youtube"
    [] u = U_VIMEO \/ u = U_VIMEO_WATCH -> "vimeo"
    [] u \in {U_PT, U_PT_LONG, U_PT_WATCH} -> "peertube"
    [] u \in {U_UNKNOWN, U_PT_ABOUT} -> NoPlatform

\* C13: detectPlatform returns none for a URL that does not parse, and
\* never throws; else youtube when the lowercased hostname contains
\* youtube.com or youtu.be; else vimeo when it contains vimeo.com; else
\* peertube when the raw string contains /videos/watch/ or /w/; else none.
\* A YouTube or Vimeo host with a PeerTube path is not peertube.
C13_DetectionOrder ==
  /\ [](event.op = "detectPlatform"
          => /\ event.ret = ExpectedPlatform(event.url)
             /\ event.url \in {U_YT_W, U_VIMEO_WATCH} => event.ret # "peertube")
  /\ [](\A u \in DirectUrls : calls = <<>> => ENABLED callDetectPlatform(u))

\* detectPlatform has answered youtube for a URL with an upper-case YouTube
\* host and a /w/ path.
C13_Witness ==
  /\ event.op = "detectPlatform"
  /\ event.url = U_YT_W
  /\ event.ret = "youtube"

\* The entries of m under keys other than k, in their order.
Others(m, k) ==
  SelectSeq(m, LAMBDA e : e.key # k)

\* C14: the store is keyed by the URL string as given.  A getVideoThumbnail
\* call, at every one of its steps, leaves each entry under another URL
\* with its result, its timestamp and its place; a call is served from the
\* store only by an entry whose key is its own URL; and two URLs of one
\* video are stored under two keys.
C14_KeyIsExactUrl ==
  /\ [][(IsCallStep(event') /\ ~event'.direct)
        => /\ Others(thumbnailCache', event'.url) = Others(thumbnailCache, event'.url)
           /\ (event'.op = "return" /\ ~event'.fetched /\ event'.ret # Null)
              => \E i \in 1..Len(thumbnailCache) :
                   /\ thumbnailCache[i].key = event'.url
                   /\ SameDescriptor(thumbnailCache[i].result, event'.ret)
                   /\ now - thumbnailCache[i].timestamp < CACHE_TTL
           /\ (started' # started /\ ~(\E i \in 1..Len(thumbnailCache) :
                                         thumbnailCache[i].key = event'.url))
              => event'.fetched
           /\ (event'.op = "return" /\ event'.fetched /\ event'.ret # Null)
              => \E i \in 1..Len(thumbnailCache') :
                   /\ thumbnailCache'[i].key = event'.url
                   /\ thumbnailCache'[i].result = event'.ret
                   /\ thumbnailCache'[i].timestamp = now]_vars
  /\ [](\A i, j \in 1..Len(thumbnailCache) :
          thumbnailCache[i].key = thumbnailCache[j].key => i = j)

\* With the video stored under one spelling of its URL, a call with the
\* other spelling has fetched and stored it again, later, under its own key.
C14_Witness ==
  /\ event.op = "return"
  /\ event.fetched
  /\ event.url = U_YT_T
  /\ Len(thumbnailCache) = 2
  /\ thumbnailCache[1].key = U_YT
  /\ thumbnailCache[2].key = U_YT_T
  /\ thumbnailCache[1].result = thumbnailCache[2].result
  /\ thumbnailCache[1].timestamp < thumbnailCache[2].timestamp

\* A getVideoThumbnail invocation for url is suspended on its fetch.
Overlaps(url) ==
  \E c \in Calls : calls[c].url = url /\ ~calls[c].direct

C16_PositiveDimensions ==
  /\ (IsCallStep(event) /\ event.op = "return" /\ event.ret # Null)
     => (event.ret.width > 0 /\ event.ret.height > 0)
  /\ \A i \in 1..Len(thumbnailCache) :
       /\ thumbnailCache[i].result.width > 0
       /\ thumbnailCache[i].result.height > 0

\* The request and result URLs the fetchers are to produce, written out.
\* X_oembed_vimeo = "https://vimeo.com/api/oembed.json?url=https%3A%2F%2Fvimeo.com%2F1"
X_oembed_vimeo ==
  <<"h", "t", "t", "p", "s", ":", "/", "/", "v", "i", "m", "e", "o", ".", "c", "o", "m", "/",
    "a", "p", "i", "/", "o", "e", "m", "b", "e", "d", ".", "j", "s", "o", "n", "?", "u", "r",
    "l", "=", "h", "t", "t", "p", "s", "%", "3", "A", "%", "2", "F", "%", "2", "F", "v", "i",
    "m", "e", "o", ".", "c", "o", "m", "%", "2", "F", "1">>

\* X_oembed_yt_t = "https://vimeo.com/api/oembed.json?url=https%3A%2F%2Fyoutu.be%2Fa1%3Ft%3D1"
X_oembed_yt_t ==
  <<"h", "t", "t", "p", "s", ":", "/", "/", "v", "i", "m", "e", "o", ".", "c", "o", "m", "/",
    "a", "p", "i", "/", "o", "e", "m", "b", "e", "d", ".", "j", "s", "o", "n", "?", "u", "r",
    "l", "=", "h", "t", "t", "p", "s", "%", "3", "A", "%", "2", "F", "%", "2", "F", "y", "o",
    "u", "t", "u", ".", "b", "e", "%", "2", "F", "a", "1", "%", "3", "F", "t", "%", "3", "D",
    "1">>

\* X_api_pt = "https://p.tv/api/v1/videos/u-1"
X_api_pt ==
  <<"h", "t", "t", "p", "s", ":", "/", "/", "p", ".", "t", "v", "/", "a", "p", "i", "/", "v",
    "1", "/", "v", "i", "d", "e", "o", "s", "/", "u", "-", "1">>

\* X_api_pt_watch = "http://p.tv:8080/api/v1/videos/u-1"
X_api_pt_watch ==
  <<"h", "t", "t", "p", ":", "/", "/", "p", ".", "t", "v", ":", "8", "0", "8", "0", "/", "a",
    "p", "i", "/", "v", "1", "/", "v", "i", "d", "e", "o", "s", "/", "u", "-", "1">>

\* X_pt_p = "https://p.tv/p.jpg"
X_pt_p ==
  <<"h", "t", "t", "p", "s", ":", "/", "/", "p", ".", "t", "v", "/", "p", ".", "j", "p", "g">>

\* X_pt_watch_t = "http://p.tv:8080/t.jpg"
X_pt_watch_t ==
  <<"h", "t", "t", "p", ":", "/", "/", "p", ".", "t", "v", ":", "8", "0", "8", "0", "/", "t",
    ".", "j", "p", "g">>


\* A dimension of the body if it is a number other than zero, else dflt.
Dimension(v, dflt) ==
  IF v.t = "number" /\ v.n # 0 THEN v.n ELSE dflt

C18_PeerTubePaths ==
  /\ [][(started' # started /\ event'.fetched /\ event'.platform = "peertube"
           /\ event'.nreq > 0)
        => /\ event'.nreq = 1
           /\ calls'[Len(calls')].pc = "get"
           /\ event'.url = U_PT
              => RequestUrl(calls'[Len(calls')]) = X_api_pt
           /\ event'.url = U_PT_WATCH
              => RequestUrl(calls'[Len(calls')]) = X_api_pt_watch]_vars
  /\ [][(started' = started /\ IsCallStep(event') /\ event'.platform = "peertube"
           /\ event'.body \in PeerTubeBodies)
        => LET data == event'.body
               origin == urlObjOf[event'.url].origin
           IN  /\ event'.op = "return"
               /\ event'.nreq = 1
               /\ (Nullish(data.thumbnailPath) /\ Nullish(data.previewPath))
                  => event'.ret = Null
               /\ ~(Nullish(data.thumbnailPath) /\ Nullish(data.previewPath))
                  => /\ event'.ret # Null
                     /\ event'.ret.width = 560
                     /\ event'.ret.height = 315
                     /\ event'.ret.platform = "peertube"
                     /\ event'.ret.cached = FALSE
               /\ Truthy(data.thumbnailPath)
                  => event'.ret.url = origin \o data.thumbnailPath.s
               /\ (Nullish(data.thumbnailPath) /\ ~Nullish(data.previewPath))
                  => event'.ret.url = origin \o data.previewPath.s
               /\ (event'.url = U_PT_WATCH /\ data.thumbnailPath = Str(S_path_t))
                  => event'.ret.url = X_pt_watch_t
               /\ (event'.url = U_PT /\ data.thumbnailPath = JsNull
                     /\ data.previewPath = Str(S_path_p))
                  => event'.ret.url = X_pt_p]_vars

\* url parses and holds, after /videos/watch/ or /w/, an identifier of at
\* most 36 letters, digits and hyphens.
MeetsPeerTubeRequirements(url) ==
  /\ urlObjOf[url].ok
  /\ uuidMatchOf[url].found
  /\ Len(uuidMatchOf[url].value) <= 36

\* C19: fetchPeerTubeThumbnail, given a URL that does not parse or that has
\* no identifier of 36 or fewer letters, digits and hyphens after
\* /videos/watch/ or /w/ (a longer identifier included), returns none
\* without issuing a request.
C19_PeerTubePreconditions ==
  [][(started' # started /\ event'.fetched /\ event'.platform = "peertube"
        /\ ~MeetsPeerTubeRequirements(event'.url))
     => /\ event'.op = "return"
        /\ event'.ret = Null
        /\ event'.nreq = 0
        /\ calls' = calls]_vars

\* The URLs classified as youtube that hold no video identifier: a channel
\* page, the bare homepage and a path that is not a video path.
NoIdYouTubeUrls ==
  {U_YT_CHANNEL, U_YT_HOME, U_YT_W}

\* C20: for a URL classified as youtube from which no video identifier can
\* be extracted, fetchYouTubeThumbnail and getVideoThumbnail return none in
\* the step of the call, issue no request, and leave the store as it was;
\* no entry of the store is ever keyed by such a URL.
C20_NoIdentifierNoFetch ==
  /\ [](\A i \in 1..Len(thumbnailCache) : thumbnailCache[i].key \notin NoIdYouTubeUrls)
  /\ [][(started' # started /\ event'.op \in {"call", "return", "throw"}
           /\ event'.platform = "youtube" /\ event'.url \in NoIdYouTubeUrls)
        => /\ event'.op = "return"
           /\ event'.ret = Null
           /\ event'.nreq = 0
           /\ calls' = calls
           /\ thumbnailCache' = thumbnailCache]_vars

\* getVideoThumbnail has returned none for a channel page, which it
\* classified as youtube and handed to the fetcher, with no request made
\* and the store holding another URL's entry only.
C20_Witness ==
  /\ event.op = "return"
  /\ ~event.direct
  /\ event.url = U_YT_CHANNEL
  /\ event.platform = "youtube"
  /\ event.fetched
  /\ event.ret = Null
  /\ event.nreq = 0
  /\ Len(thumbnailCache) = 1
  /\ thumbnailCache[1].key # U_YT_CHANNEL

\* The most transport requests one invocation may issue, by the platform
\* its URL is classified as.
RequestLimit(platform) ==
  CASE platform = "youtube" -> 3
    [] platform \in {"vimeo", "peertube"} -> 1
    [] OTHER -> 0

\* C21: an invocation of getVideoThumbnail issues at most three requests
\* for a YouTube URL, at most one for a Vimeo or PeerTube URL and none on a
\* hit or for an unclassified URL.  It issues a request only when it is
\* called or when it has taken the response to its previous one, one
\* request at a time, and a further request only as the next candidate of
\* the YouTube fallback, after a response that was not ok or a failure.
C21_RequestsSequentialAndBounded ==
  /\ [](\A c \in Calls : /\ calls[c].nreq >= 1
                         /\ calls[c].nreq <= RequestLimit(calls[c].platform))
  /\ [][IsCallStep(event')
        => /\ event'.nreq <= RequestLimit(event'.platform)
           /\ ~event'.fetched => event'.nreq = 0
           /\ started' # started => event'.nreq <= 1
           /\ started' = started
              => LET before == calls[event'.c]
                 IN  /\ before.pc \in {"head", "get", "json"}
                     /\ event'.nreq \in {before.nreq, before.nreq + 1}
                     /\ event'.nreq = before.nreq + 1
                        => /\ before.pc = "head"
                           /\ event'.platform = "youtube"
                           /\ event'.res \in {"notok", "throw"}
                           /\ event'.op = "await"
                           /\ calls'[event'.c].idx = before.idx + 1
                           /\ calls'[event'.c].idx = event'.nreq]_vars

\* A YouTube invocation has returned the third candidate after three
\* requests, the first two answered not ok or failed.
C21_Witness ==
  /\ event.op = "return"
  /\ event.platform = "youtube"
  /\ event.nreq = 3
  /\ event.res = "ok"
  /\ event.ret # Null
  /\ event.ret.width = 320

\* The three pattern families, in the order they are to be tried: what
\* comes before the identifier in each.
Families ==
  << {S_yt_watch, S_yt_short, S_yt_embed}, {S_yt_v}, {S_yt_shorts} >>

\* The identifiers family f finds in url: after one of the family's
\* prefixes, the longest run of characters other than & ? / that is not
\* empty.
FamilyCaptures(url, f) ==
  {SubSeq(url, from, to) :
     <<from, to>> \in
       {ft \in (1..Len(url)) \X (1..Len(url)) :
          /\ ft[1] <= ft[2]
          /\ \E p \in Families[f] : MatchesAt(url, p, ft[1] - Len(p))
          /\ \A k \in ft[1]..ft[2] : url[k] \notin {"&", "?", "/"}
          /\ ft[2] = Len(url) \/ url[ft[2] + 1] \in {"&", "?", "/"}}}

\* The captures of each family in each URL extractYouTubeId is called with.
capturesOf ==
  [u \in DirectUrls \cup ExtractUrls |->
     [f \in 1..Len(Families) |-> FamilyCaptures(u, f)]]

\* The identifiers of the URLs that have one, written out.
ExpectedId ==
  << <<U_YT, <<"a", "1">> >>, <<U_YT_T, <<"a", "1">> >>, <<U_YT_BARE, <<"a", "1">> >>,
     <<U_YT_WATCH, <<"a", "1">> >>, <<U_YT_EMBED, <<"e", "1">> >>,
     <<U_YT_V, <<"v", "2">> >>, <<U_YT_SHORTS, <<"s", "3">> >>,
     <<U_YT_SHORTS_T, <<"a", "1">> >>, <<U_YT_SHORTS_V, <<"v", "2">> >> >>

\* C22: extractYouTubeId returns none when no family matches the URL, and
\* otherwise a capture of the first of the three families, in their order,
\* that matches; an identifier it returns is not empty and has none of the
\* characters & ? /.
C22_FirstMatchingFamily ==
  [][event'.op = "extractYouTubeId"
     => LET url == event'.url
            ret == event'.ret
            matching == {f \in 1..Len(Families) : capturesOf[url][f] # {}}
        IN  /\ ret.found <=> matching # {}
            /\ ret.found
               => /\ ret.value # <<>>
                  /\ \A k \in 1..Len(ret.value) : ret.value[k] \notin {"&", "?", "/"}
                  /\ ret.value \in capturesOf[url][Min(matching)]
            /\ \A j \in 1..Len(ExpectedId) :
                 url = ExpectedId[j][1] => (ret.found /\ ret.value = ExpectedId[j][2])
            /\ ret.found => \E j \in 1..Len(ExpectedId) : url = ExpectedId[j][1]]_vars

\* extractYouTubeId has returned the identifier after youtu.be/ for a URL
\* in which /shorts/ and an identifier come first.
C22_Witness ==
  /\ event.op = "extractYouTubeId"
  /\ event.url = U_YT_SHORTS_T
  /\ event.ret.found
  /\ event.ret.value = <<"a", "1">>

\* The reading of C23 as it stands: while a call that deleted the expired
\* entry of its key is suspended on its fetch, the store has no entry for
\* that key.
C23_Original ==
  \A c \in Calls : calls[c].evicted => ~MapHas(thumbnailCache, calls[c].url)

\* C23: a call for a key whose entry has expired deletes the entry in the
\* stretch that starts the fetch, so the key is out of the store, and out
\* of what getCacheStats returns, when the fetch begins.  From then on the
\* key comes back only when a call for that key, this one or one that
\* overlaps it, returns a fetched result and inserts it as a new entry
\* stamped with the time of the insertion.
C23_DeletedThenInsertedAnew ==
  /\ [][(started' # started /\ IsCallStep(event') /\ event'.evicted)
        => /\ MapHas(thumbnailCache, event'.url)
           /\ IsExpired(now, thumbnailCache[MapIndex(thumbnailCache, event'.url)].timestamp)
           /\ event'.op = "call" => ~MapHas(thumbnailCache', event'.url)]_vars
  /\ [][\A c \in Calls :
          (calls[c].evicted /\ ~MapHas(thumbnailCache, calls[c].url)
             /\ MapHas(thumbnailCache', calls[c].url))
          => /\ event'.op = "return"
             /\ event'.url = calls[c].url
             /\ event'.ret # Null
             /\ thumbnailCache'[MapIndex(thumbnailCache', calls[c].url)]
                  = [key |-> calls[c].url, result |-> event'.ret, timestamp |-> now]]_vars
  /\ [][event'.op = "getCacheStats"
        => /\ event'.ret.size = Len(thumbnailCache)
           /\ event'.ret.keys.items = [i \in 1..Len(thumbnailCache) |-> thumbnailCache[i].key]
           /\ \A c \in Calls :
                (calls[c].evicted /\ ~MapHas(thumbnailCache, calls[c].url))
                => \A i \in 1..Len(event'.ret.keys.items) :
                     event'.ret.keys.items[i] # calls[c].url]_vars

\* A call that deleted the expired entry of its key is still suspended on
\* its fetch, and the key is back in the store: a call that overlapped it
\* has returned a fetched result and inserted it.
C23_Witness ==
  /\ event.op = "return"
  /\ event.ret # Null
  /\ \E c \in Calls : /\ calls[c].evicted
                      /\ calls[c].url = event.url
                      /\ MapHas(thumbnailCache, event.url)
                      /\ thumbnailCache[MapIndex(thumbnailCache, event.url)].timestamp = now
                      /\ now >= CACHE_TTL

\* The store pruneExpiredCache would leave, called now.
Pruned ==
  SelectSeq(thumbnailCache, LAMBDA e : ~IsExpired(now, e.timestamp))

\* C24: at any instant a call of getVideoThumbnail for a key in the store
\* is served from the store exactly when pruneExpiredCache, called at that
\* instant, would keep the key's entry; an entry aged exactly CACHE_TTL is
\* not served and is not kept.
C24_ReadAndPruneAgree ==
  /\ [][event'.op = "pruneExpiredCache" => thumbnailCache' = Pruned]_vars
  /\ [][(started' # started /\ IsCallStep(event') /\ ~event'.direct
           /\ MapHas(thumbnailCache, event'.url))
        => LET entry == Entry(thumbnailCache, event'.url)
               served == /\ event'.op = "return"
                         /\ ~event'.fetched
                         /\ event'.ret # Null
                         /\ event'.ret.cached
                         /\ SameDescriptor(event'.ret, entry.result)
               kept == \E i \in 1..Len(Pruned) : Pruned[i] = entry
           IN  /\ served <=> kept
               /\ served <=> now - entry.timestamp < CACHE_TTL
               /\ now - entry.timestamp = CACHE_TTL => (~served /\ ~kept)]_vars

\* A call has found the entry of its key aged exactly CACHE_TTL, which a
\* prune would drop, and has gone on to fetch instead of serving it.
C24_Witness ==
  /\ event.op = "call"
  /\ event.evicted
  /\ event.fetched
  /\ now = CACHE_TTL
  /\ ~MapHas(thumbnailCache, event.url)

\* C25: a hit leaves the store as it is: the stored result keeps cached =
\* false while the returned copy has cached = true, and no read changes a
\* timestamp, which only the insertion after a fetch sets; so every hit
\* comes less than CACHE_TTL after the insertion of the entry it serves,
\* however often the entry has been read.
C25_HitLeavesStoreAlone ==
  /\ [](\A i \in 1..Len(thumbnailCache) : thumbnailCache[i].result.cached = FALSE)
  /\ [][(started' # started /\ IsCallStep(event') /\ ~event'.fetched
           /\ event'.ret # Null)
        => /\ thumbnailCache' = thumbnailCache
           /\ MapHas(thumbnailCache, event'.url)
           /\ event'.ret.cached = TRUE
           /\ SameDescriptor(event'.ret, Entry(thumbnailCache, event'.url).result)
           /\ Entry(thumbnailCache, event'.url).result.cached = FALSE
           /\ now - Entry(thumbnailCache, event'.url).timestamp < CACHE_TTL]_vars
  /\ [][\A i \in 1..Len(thumbnailCache), j \in 1..Len(thumbnailCache') :
          (thumbnailCache[i].key = thumbnailCache'[j].key
             /\ thumbnailCache[i] # thumbnailCache'[j])
          => /\ event'.op = "return"
             /\ event'.fetched
             /\ event'.url = thumbnailCache[i].key
             /\ thumbnailCache'[j].timestamp = now
             /\ thumbnailCache'[j].result = event'.ret]_vars
  /\ [][(\E k \in Keys(thumbnailCache') : ~MapHas(thumbnailCache, k))
        => /\ event'.op = "return"
           /\ event'.fetched
           /\ Entry(thumbnailCache', event'.url).timestamp = now]_vars

\* The entry stored at time 0 has been served a second time, a millisecond
\* short of CACHE_TTL, and is in the store as it was stored.
C25_Witness ==
  /\ event.op = "return"
  /\ ~event.fetched
  /\ event.ret # Null
  /\ event.ret.cached = TRUE
  /\ started = 2
  /\ now = CACHE_TTL - 1
  /\ Len(thumbnailCache) = 1
  /\ thumbnailCache[1].timestamp = 0
  /\ thumbnailCache[1].result.cached = FALSE

\* C26: an entry leaves the store only by a pruneExpiredCache that finds
\* it expired, by a clearThumbnailCache, or by a getVideoThumbnail call for
\* its own key that finds it expired; the passage of time and calls for
\* other keys leave it where it is, and getCacheStats counts and lists it
\* whatever its age.
C26_ExpiryIsLazy ==
  /\ [][\A i \in 1..Len(thumbnailCache) :
          ~MapHas(thumbnailCache', thumbnailCache[i].key)
          => \/ event'.op = "clearThumbnailCache"
             \/ /\ event'.op = "pruneExpiredCache"
                /\ now - thumbnailCache[i].timestamp >= CACHE_TTL
             \/ /\ started' # started
                /\ IsCallStep(event')
                /\ event'.url = thumbnailCache[i].key
                /\ event'.evicted
                /\ now - thumbnailCache[i].timestamp >= CACHE_TTL]_vars
  /\ [][event'.op = "tick" => thumbnailCache' = thumbnailCache]_vars
  /\ [][IsCallStep(event')
        => \A i \in 1..Len(thumbnailCache) :
             thumbnailCache[i].key # event'.url
             => \E j \in 1..Len(thumbnailCache') : thumbnailCache'[j] = thumbnailCache[i]]_vars
  /\ [][event'.op = "getCacheStats"
        => /\ event'.ret.size = Len(thumbnailCache)
           /\ event'.ret.keys.items = [i \in 1..Len(thumbnailCache) |-> thumbnailCache[i].key]
           /\ thumbnailCache' = thumbnailCache]_vars

\* getCacheStats has counted and listed two entries, the first of them
\* expired before the second, of another key, was fetched and stored.
C26_Witness ==
  /\ event.op = "getCacheStats"
  /\ event.ret.size = 2
  /\ Len(thumbnailCache) = 2
  /\ event.ret.keys.items[1] = thumbnailCache[1].key
  /\ thumbnailCache[2].timestamp - thumbnailCache[1].timestamp >= CACHE_TTL
  /\ now - thumbnailCache[1].timestamp > CACHE_TTL

\* C27: every key of the store is a URL detectPlatform classifies, and the
\* platform of the result stored under it is the platform of the key; so a
\* call that deletes an expired entry never takes the early return for an
\* unclassified URL, and that early return never changes the store.
C27_KeysAreClassified ==
  /\ [](\A i \in 1..Len(thumbnailCache) :
          /\ platformOf[thumbnailCache[i].key] \in Platforms
          /\ thumbnailCache[i].result.platform = platformOf[thumbnailCache[i].key]
          /\ thumbnailCache[i].result.platform = ExpectedPlatform(thumbnailCache[i].key))
  /\ [][(started' # started /\ IsCallStep(event') /\ event'.evicted)
        => /\ event'.fetched
           /\ event'.platform \in Platforms]_vars
  /\ [][(started' # started /\ IsCallStep(event') /\ event'.platform = NoPlatform)
        => /\ ~MapHas(thumbnailCache, event'.url)
           /\ ~event'.evicted
           /\ thumbnailCache' = thumbnailCache]_vars

\* A call for a PeerTube URL has deleted the expired entry of its key,
\* stored by an earlier call, and gone on to the fetcher.
C27_Witness ==
  /\ event.op = "call"
  /\ event.evicted
  /\ event.fetched
  /\ event.url = U_PT
  /\ event.platform = "peertube"
  /\ event.nreq = 1
  /\ now >= CACHE_TTL
  /\ thumbnailCache = <<>>

\* C28: every timestamp in the store is at most the current time; the
\* clock never goes back; an entry that is new in the store, or changed,
\* was stored by a call returning a fetched result and carries the time of
\* that return, which is no earlier than the call and no earlier than any
\* timestamp the store held; and once a timestamp is stored under the key
\* of U_YT no earlier one is ever stored under it again.
C28_TimestampIsInsertionTime ==
  /\ [](\A i \in 1..Len(thumbnailCache) : thumbnailCache[i].timestamp <= now)
  /\ [][now' >= now]_vars
  /\ [][\A j \in 1..Len(thumbnailCache') :
          (\A i \in 1..Len(thumbnailCache) : thumbnailCache[i] # thumbnailCache'[j])
          => /\ event'.op = "return"
             /\ event'.fetched
             /\ event'.url = thumbnailCache'[j].key
             /\ thumbnailCache'[j].timestamp = now'
             /\ \A i \in 1..Len(thumbnailCache) :
                  thumbnailCache[i].timestamp <= thumbnailCache'[j].timestamp]_vars
  /\ \A t \in Instants :
       []((MapHas(thumbnailCache, U_YT) /\ Entry(thumbnailCache, U_YT).timestamp = t)
            => [](MapHas(thumbnailCache, U_YT)
                    => Entry(thumbnailCache, U_YT).timestamp >= t))

\* The clock has just advanced while a call made before was suspended on
\* its probe, and the call can now return the thumbnail and store it under
\* the new reading of the clock.
C28_Witness ==
  /\ event.op = "tick"
  /\ now = CACHE_TTL + 1
  /\ Len(calls) = 1
  /\ calls[1].url = U_YT
  /\ ~MapHas(thumbnailCache, U_YT)
  /\ ENABLED (/\ fetchYouTubeThumbnail(1, "ok")
              /\ MapHas(thumbnailCache', U_YT)
              /\ Entry(thumbnailCache', U_YT).timestamp = CACHE_TTL + 1)

\* C29: clearThumbnailCache and pruneExpiredCache leave the suspended calls
\* as they are, and a suspended call whose fetch then yields a result
\* stores it whatever has run in between.  A clear leaves the store empty
\* and an entry comes into the store only when a call returns a fetched
\* result, so every entry present was stored by a fetch that completed
\* after the last clear.
C29_InFlightCallStillInserts ==
  /\ [][event'.op \in {"clearThumbnailCache", "pruneExpiredCache"}
        => /\ calls' = calls
           /\ started' = started]_vars
  /\ [][event'.op = "clearThumbnailCache" => thumbnailCache' = <<>>]_vars
  /\ [][(started' = started /\ event'.op = "return" /\ event'.fetched
           /\ ~event'.direct /\ event'.ret # Null)
        => /\ MapHas(thumbnailCache', event'.url)
           /\ Entry(thumbnailCache', event'.url)
                = [key |-> event'.url, result |-> event'.ret, timestamp |-> now]]_vars
  /\ [][\A j \in 1..Len(thumbnailCache') :
          (\A i \in 1..Len(thumbnailCache) : thumbnailCache[i] # thumbnailCache'[j])
          => /\ event'.op = "return"
             /\ event'.fetched
             /\ event'.ret # Null
             /\ thumbnailCache'[j].key = event'.url]_vars

\* clearThumbnailCache has just emptied a store of one entry while a call
\* was suspended on its probe, and with no further call the response to
\* that probe can make the store hold an entry again.
C29_Witness ==
  /\ event.op = "clearThumbnailCache"
  /\ event.removed = 1
  /\ thumbnailCache = <<>>
  /\ started = 2
  /\ Len(calls) = 1
  /\ ENABLED (/\ fetchYouTubeThumbnail(1, "ok")
              /\ started' = started
              /\ Len(thumbnailCache') = 1
              /\ thumbnailCache'[1].key = calls[1].url)

\* How many more steps a suspended invocation can take at most.
StepsLeft(call) ==
  CASE call.pc = "head" -> 4 - call.idx
    [] call.pc = "get" -> 2
    [] call.pc = "json" -> 1
    [] OTHER -> 0

\* C30: given a transport that answers every request, every invocation of
\* getVideoThumbnail returns: all the invocations started have returned at
\* some later time.  An invocation never ends by an exception, takes at
\* most three transport responses, and each of its steps brings it nearer
\* to its return; whatever else has run, a suspended invocation can take
\* its next response.
C30_EveryCallReturns ==
  /\ \A n \in 1..MaxCalls : (started = n) ~> (started - Len(calls) >= n)
  /\ [][IsCallStep(event')
        => /\ event'.op # "throw"
           /\ event'.nreq <= 3
           /\ (started' = started /\ event'.op = "await")
              => StepsLeft(calls'[event'.c]) < StepsLeft(calls[event'.c])
           /\ (started' = started /\ event'.op = "return")
              => calls' = Remove(calls, event'.c)]_vars
  /\ [](\A c \in Calls : StepsLeft(calls[c]) >= 1 /\ ENABLED Respond(c))

\* Both invocations have returned, the one that returned last after its
\* third transport response.
C30_Witness ==
  /\ event.op = "return"
  /\ event.fetched
  /\ event.nreq = 3
  /\ started = 2
  /\ calls = <<>>
====
